---------------------------- MODULE Spec2Model ----------------------------
(***************************************************************************)
(* Model of the option pricing engine of qfinance: the Option value object *)
(* (src/options/Option.py), the Black-Scholes pricer and its Newton-Raphson*)
(* implied-volatility solver (src/options/black_scholes.py) and the        *)
(* vectorised binomial lattice pricer (src/options/bopm.py).               *)
(*                                                                         *)
(* Floating point numbers are modelled on a decimal grid: the integer x    *)
(* stands for the real x / Scale.  Magnitudes above MaxFin overflow to the *)
(* IEEE infinities, and NaN is a value of its own, so that the degenerate  *)
(* results of the code (division by zero, inf - inf) are results of the    *)
(* model as well.  Signed zeros are not modelled.                          *)
(***************************************************************************)
EXTENDS Integers, Naturals, Sequences, FiniteSets, TLC

\* ----------------------------------------------------------------------
\* Bounds of the model
\* ----------------------------------------------------------------------
\* number of grid points per unit: 1 / Scale is the resolution of a float
Scale == 10000
\* largest number of tree levels n passed to the lattice pricer
MaxN == 3
\* length M of a batched attribute
MaxM == 2

\* ----------------------------------------------------------------------
\* IEEE-754 double arithmetic on the grid
\* ----------------------------------------------------------------------
MaxFin == 40000 * Scale
PInf == MaxFin + 1
NInf == 0 - (MaxFin + 1)
NaN == MaxFin + 2

IsNaN(x) == x = NaN
IsInf(x) == x = PInf \/ x = NInf
IsFin(x) == x >= 0 - MaxFin /\ x <= MaxFin

\* a finite result rounded into the representable range (overflow to +-inf)
Fin(x) == IF x > MaxFin THEN PInf ELSE IF x < 0 - MaxFin THEN NInf ELSE x

Abs(x) == IF x < 0 THEN 0 - x ELSE x
Sgn(x) == IF x < 0 THEN 0 - 1 ELSE IF x > 0 THEN 1 ELSE 0

\* a decimal literal num / den of the source, on the grid
Dec(num, den) == (num * Scale) \div den

One == Scale

\* The arithmetic is defined on values (functions of Int), so that an operand
\* is evaluated once, as the operand of a machine instruction is; the
\* operators of the same name after each function are what the translated
\* expressions of the source apply.
NegV[a \in Int] == IF IsNaN(a) THEN NaN ELSE 0 - a
FNeg(a) == NegV[a]

AddV[a \in Int, b \in Int] ==
  IF IsNaN(a) \/ IsNaN(b) THEN NaN
  ELSE IF IsInf(a) /\ IsInf(b) THEN (IF a = b THEN a ELSE NaN)
  ELSE IF IsInf(a) THEN a
  ELSE IF IsInf(b) THEN b
  ELSE Fin(a + b)
FAdd(a, b) == AddV[a, b]

FSub(a, b) == AddV[a, NegV[b]]

\* |a| * |b| / Scale for finite magnitudes, without leaving 32 bits
MulMag[a \in Int, b \in Int] ==
  LET ah == a \div Scale
      al == a % Scale
      bh == b \div Scale
      bl == b % Scale
  IN  IF ah * bh > (MaxFin \div Scale) THEN PInf
      ELSE Fin(ah * bh * Scale + ah * bl + al * bh + (al * bl) \div Scale)

MulV[a \in Int, b \in Int] ==
  IF IsNaN(a) \/ IsNaN(b) THEN NaN
  ELSE IF IsInf(a) \/ IsInf(b)
       THEN (IF a = 0 \/ b = 0 THEN NaN
             ELSE IF Sgn(a) * Sgn(b) > 0 THEN PInf ELSE NInf)
  ELSE IF Sgn(a) * Sgn(b) < 0 THEN NegV[MulMag[Abs(a), Abs(b)]]
  ELSE MulMag[Abs(a), Abs(b)]
FMul(a, b) == MulV[a, b]

\* the largest remainder that can be multiplied by Scale within 32 bits
DivCap == 2000000000 \div Scale

\* |a| / |b| on the grid for finite magnitudes, b > 0; above DivCap the
\* remainder and the divisor are shortened by the same factor k
DivMag[a \in Int, b \in Int] ==
  LET q == a \div b
      k == (b \div DivCap) + 1
  IN  IF q > (MaxFin \div Scale) THEN PInf
      ELSE Fin(q * Scale + (((a % b) \div k) * Scale) \div (b \div k))

\* numpy true division: x / 0 is +-inf or nan (a RuntimeWarning, no exception)
DivV[a \in Int, b \in Int] ==
  IF IsNaN(a) \/ IsNaN(b) THEN NaN
  ELSE IF IsInf(a) THEN (IF IsInf(b) THEN NaN
                         ELSE IF Sgn(a) * (IF b < 0 THEN 0 - 1 ELSE 1) > 0
                              THEN PInf ELSE NInf)
  ELSE IF IsInf(b) THEN 0
  ELSE IF b = 0 THEN (IF a = 0 THEN NaN ELSE IF a > 0 THEN PInf ELSE NInf)
  ELSE IF Sgn(a) * Sgn(b) < 0 THEN NegV[DivMag[Abs(a), Abs(b)]]
  ELSE DivMag[Abs(a), Abs(b)]
FDiv(a, b) == DivV[a, b]

\* comparisons: every comparison with NaN is False
LtV[a \in Int, b \in Int] == ~IsNaN(a) /\ ~IsNaN(b) /\ a < b
GeV[a \in Int, b \in Int] == ~IsNaN(a) /\ ~IsNaN(b) /\ a >= b
FLt(a, b) == LtV[a, b]
FGt(a, b) == LtV[b, a]
FGe(a, b) == GeV[a, b]

\* np.abs
AbsV[a \in Int] == IF IsNaN(a) THEN NaN ELSE IF a < 0 THEN 0 - a ELSE a
np_abs(a) == AbsV[a]

\* np.maximum: propagates NaN
MaximumV[a \in Int, b \in Int] ==
  IF IsNaN(a) \/ IsNaN(b) THEN NaN ELSE IF a >= b THEN a ELSE b
np_maximum(a, b) == MaximumV[a, b]

\* x ** k for an integer k >= 0 (pow(x, 0) is 1 for every x, NaN included)
PowV[x \in Int, k \in Int] == IF k = 0 THEN One ELSE MulV[x, PowV[x, k - 1]]
FPow(x, k) == PowV[x, k]

\* floor(sqrt(v)) for an integer v > 0 by Newton's iteration from x >= sqrt(v)
ISqrt[v \in Int, x \in Int] ==
  IF (x + v \div x) \div 2 >= x THEN x ELSE ISqrt[v, (x + v \div x) \div 2]

\* np.sqrt: nan below zero; sqrt(a / Scale) * Scale = sqrt(a * Scale), and
\* (a + Scale) / 2 is not below it
SqrtV[a \in Int] ==
  IF IsNaN(a) THEN NaN
  ELSE IF a = PInf THEN PInf
  ELSE IF a < 0 THEN NaN
  ELSE IF a = 0 THEN 0
  ELSE IF a <= DivCap THEN ISqrt[a * Scale, (a + Scale) \div 2 + 1]
  ELSE ISqrt[a, (a + 1) \div 2 + 1] * ISqrt[Scale, Scale]
np_sqrt(a) == SqrtV[a]

\* exp on [-1/2, 1/2] by its Taylor polynomial of degree 7
ExpSeries[x \in Int, k \in Int, term \in Int] ==
  IF k > 7 \/ term = 0 THEN 0
  ELSE term + ExpSeries[x, k + 1, MulV[term, x] \div (k + 1)]

\* np.exp, by halving the argument and squaring the result
ExpV[x \in Int] ==
  IF IsNaN(x) THEN NaN
  ELSE IF x = PInf THEN PInf
  ELSE IF x = NInf THEN 0
  ELSE IF x > 11 * Scale THEN PInf
  ELSE IF x < 0 - 11 * Scale THEN 0
  ELSE IF Abs(x) * 2 <= Scale THEN ExpSeries[x, 0, One]
  ELSE IF x % 2 = 0 THEN PowV[ExpV[x \div 2], 2]
  ELSE MulV[PowV[ExpV[x \div 2], 2], ExpSeries[1, 0, One]]
np_exp(x) == ExpV[x]

\* 2 * atanh(y) = 2 * (y + y^3/3 + y^5/5 + ...), |y| <= 1/3
AtanhSeries[y2 \in Int, k \in Int, pw \in Int] ==
  IF k > 13 \/ pw = 0 THEN 0
  ELSE (2 * pw) \div k + AtanhSeries[y2, k + 2, MulV[pw, y2]]

Atanh2[y \in Int] == AtanhSeries[MulV[y, y], 1, y]

Ln2 == Dec(69315, 100000)

\* np.log: -inf at zero, nan below (RuntimeWarning, no exception)
LogV[x \in Int] ==
  IF IsNaN(x) THEN NaN
  ELSE IF x = PInf THEN PInf
  ELSE IF x < 0 THEN NaN
  ELSE IF x = 0 THEN NInf
  ELSE IF x >= 2 * Scale THEN AddV[Ln2, LogV[x \div 2]]
  ELSE IF 2 * x < Scale THEN AddV[LogV[2 * x], NegV[Ln2]]
  ELSE Atanh2[DivV[x - One, x + One]]
np_log(x) == LogV[x]

\* ----------------------------------------------------------------------
\* numpy arrays of at most two dimensions, and broadcasting
\* ----------------------------------------------------------------------
\* An array of ndim nd holds R rows of C entries: a 0-d value (a Python
\* float, a numpy scalar) is 1 x 1, a 1-d array of shape (M,) is 1 x M as
\* numpy's broadcasting reads it, a 2-d array of shape (R, C) is R x C.
Sc(x) == [nd |-> 0, R |-> 1, C |-> 1, d |-> << <<x>> >>]
Vec(s) == [nd |-> 1, R |-> 1, C |-> Len(s), d |-> <<s>>]
Val(a) == a.d[1][1]

\* the operation that numpy refuses: "operands could not be broadcast together"
BroadcastError == [nd |-> 0 - 1, R |-> 0, C |-> 0, d |-> <<>>]
IsErr(a) == a.nd < 0

Max2(a, b) == IF a >= b THEN a ELSE b

\* one dimension of the broadcast shape, 0 when the two cannot be broadcast
BroadcastDim(a, b) ==
  IF a = b THEN a ELSE IF a = 1 THEN b ELSE IF b = 1 THEN a ELSE 0

At(a, i, j) == a.d[IF a.R = 1 THEN 1 ELSE i][IF a.C = 1 THEN 1 ELSE j]

\* the binary ufuncs and operators that the pricer applies to arrays
Ufunc2(op, x, y) ==
  CASE op = "+" -> AddV[x, y]
    [] op = "-" -> AddV[x, NegV[y]]
    [] op = "*" -> MulV[x, y]
    [] op = "/" -> DivV[x, y]
    [] op = "**" -> PowV[x, y]
    [] op = "maximum" -> MaximumV[x, y]
    [] op = "int-" -> x - y

\* the unary ones
Ufunc1(op, x) ==
  CASE op = "exp" -> ExpV[x]
    [] op = "sqrt" -> SqrtV[x]
    [] op = "neg" -> NegV[x]

\* an elementwise binary ufunc or operator of two arrays
Bin(op, a, b) ==
  IF IsErr(a) \/ IsErr(b) THEN BroadcastError
  ELSE LET rows == BroadcastDim(a.R, b.R)
           cols == BroadcastDim(a.C, b.C)
       IN  IF rows = 0 \/ cols = 0 THEN BroadcastError
           ELSE [nd |-> Max2(a.nd, b.nd), R |-> rows, C |-> cols,
                 d |-> [i \in 1..rows |->
                         [j \in 1..cols |-> Ufunc2(op, At(a, i, j), At(b, i, j))]]]

\* an elementwise unary ufunc
Map(op, a) ==
  IF IsErr(a) THEN BroadcastError
  ELSE [nd |-> a.nd, R |-> a.R, C |-> a.C,
        d |-> [i \in 1..a.R |-> [j \in 1..a.C |-> Ufunc1(op, a.d[i][j])]]]

\* np.asarray: a scalar becomes a 0-d array, a sequence a 1-d array
np_asarray(x) == x

\* x[:, None]: shape (M,) becomes (M, 1)
NewAxis(x) ==
  [nd |-> 2, R |-> x.C, C |-> 1, d |-> [i \in 1..x.C |-> <<x.d[1][i]>>]]

\* a[..., :-1]: the last axis without its last entry
SliceInit(a) ==
  IF IsErr(a) THEN BroadcastError
  ELSE [nd |-> a.nd, R |-> a.R, C |-> a.C - 1,
        d |-> [i \in 1..a.R |-> [j \in 1..(a.C - 1) |-> a.d[i][j]]]]

\* a[..., 1:]: the last axis without its first entry
SliceTail(a) ==
  IF IsErr(a) THEN BroadcastError
  ELSE [nd |-> a.nd, R |-> a.R, C |-> a.C - 1,
        d |-> [i \in 1..a.R |-> [j \in 1..(a.C - 1) |-> a.d[i][j + 1]]]]

\* np.arange(k).reshape(1, -1): the row vector 0 .. k-1 of shape (1, k)
ArangeRow(k) == [nd |-> 2, R |-> 1, C |-> k, d |-> <<[j \in 1..k |-> j - 1]>>]

\* a.flatten(): the entries in row-major order, shape (R * C,)
Flatten(a) ==
  [nd |-> 1, R |-> 1, C |-> a.R * a.C,
   d |-> <<[k \in 1..(a.R * a.C) |->
             a.d[((k - 1) \div a.C) + 1][((k - 1) % a.C) + 1]]>>]

\* a.item(): the one entry as a Python float
Item(a) == Sc(a.d[1][1])

\* np.any: whether some entry is truthy (nonzero; NaN is truthy)
np_any(a) == \E i \in 1..a.R : \E j \in 1..a.C : a.d[i][j] # 0

\* Python's bool as an int in a comparison: True is 1, False is 0
BoolInt(b) == IF b THEN 1 ELSE 0

\* ----------------------------------------------------------------------
\* Option (src/options/Option.py)
\* ----------------------------------------------------------------------
\* A str is the sequence of its characters.
s_call == <<"c", "a", "l", "l">>
s_put == <<"p", "u", "t">>
s_eu == <<"e", "u">>
s_us == <<"u", "s">>
s_na == <<"n", "a">>

\* str.lower, on the letters the inputs are written with
LowerChar(c) ==
  CASE c = "A" -> "a" [] c = "C" -> "c" [] c = "E" -> "e" [] c = "L" -> "l"
    [] c = "N" -> "n" [] c = "P" -> "p" [] c = "S" -> "s" [] c = "T" -> "t"
    [] c = "U" -> "u" [] OTHER -> c
lower(s) == [k \in 1..Len(s) |-> LowerChar(s[k])]

\* no Option object
NoOption == [none |-> TRUE]

\* the first negativity test of __init__ that fires, "" when none does:
\* np.any(x) is a bool, and a bool is never below 0
NegativeCheck(a) ==
  IF BoolInt(np_any(a.tau)) < 0 THEN "Invalid Time-To-Maturity (negative value)"
  ELSE IF BoolInt(np_any(a.spot)) < 0 THEN "Invalid Spot price (negative value)"
  ELSE IF BoolInt(np_any(a.strike)) < 0 THEN "Invalid Strike price (negative value)"
  ELSE IF BoolInt(np_any(a.sigma)) < 0 THEN "Invalid Volatility (negative value)"
  ELSE IF BoolInt(np_any(a.div)) < 0 THEN "Invalid Dividend-yield (negative value)"
  ELSE ""

\* whether __init__ takes the type: call or put, in any case
TypeAccepted(in_type) == ~(in_type # s_call /\ in_type # s_put)

\* whether __init__ takes the region
RegionAccepted(in_region) == ~(in_region # s_eu /\ in_region # s_na)

\* Option.__init__: the ValueError it raises ("" for none) and the object
Option__init__(a) ==
  LET neg       == NegativeCheck(a)
      in_type   == lower(a.type)
      in_region == lower(a.region)
  IN  IF neg # "" THEN [raised |-> "ValueError", msg |-> neg, self |-> NoOption]
      ELSE IF ~TypeAccepted(in_type)
        THEN [raised |-> "ValueError", msg |-> "Invalid Option type", self |-> NoOption]
      ELSE IF ~RegionAccepted(in_region)
        THEN [raised |-> "ValueError", msg |-> "Invalid Option region", self |-> NoOption]
      ELSE [raised |-> "", msg |-> "",
            self |-> [tau |-> a.tau, spot |-> a.spot, strike |-> a.strike,
                      sigma |-> a.sigma, r |-> a.r, div |-> a.div,
                      type |-> in_type, region |-> in_region]]

\* ----------------------------------------------------------------------
\* Binomial lattice pricer (src/options/bopm.py)
\* ----------------------------------------------------------------------
\* _to_col: a vector becomes a column (M, 1), a scalar is left alone
_to_col(x0) ==
  LET x == np_asarray(x0)
  IN  IF x.nd > 0 THEN NewAxis(x) ELSE x

\* a faulty variant of the region test: the early exercise on the region 'eu'
EarlyExerciseEu(o) == o.region = s_eu

\* the region test of the backward loop
EarlyExercise(o) == o.region = s_us

\* line 41: the risk-neutral probability of an up move
bopm_p(r, div, dt, u, d) ==
  Bin("/", Bin("-", Map("exp", Bin("*", Bin("-", r, div), dt)), d),
      Bin("-", u, d))

\* lines 40-41, for the up factor u
bopm_factors(o, n, dt, u, d) ==
  [n |-> n, spot |-> o.spot, strike |-> _to_col(o.strike), r |-> o.r,
   dt |-> dt, u |-> u, d |-> d, p |-> bopm_p(o.r, o.div, dt, u, d)]

\* lines 39-41, for the time step dt and the column of volatilities
bopm_steps(o, n, dt, u) == bopm_factors(o, n, dt, u, Bin("/", Sc(One), u))

\* lines 29-41: the parameters prepared for broadcasting; tau, strike and
\* sigma go through _to_col, spot, r and div do not
bopm_params(o, n) ==
  bopm_steps(o, n, Bin("/", _to_col(o.tau), Sc(n * Scale)),
             Map("exp", Bin("*", _to_col(o.sigma),
                             Map("sqrt", Bin("/", _to_col(o.tau), Sc(n * Scale))))))

\* spot * u ** (i - j) * d ** j for the i + 1 nodes j = 0 .. i of level i
bopm_assets(L, i) ==
  LET j == ArangeRow(i + 1)
  IN  Bin("*", Bin("*", L.spot, Bin("**", L.u, Bin("int-", Sc(i), j))),
          Bin("**", L.d, j))

\* the payoff of exercising at the given asset prices
bopm_payoff(o, L, assets) ==
  IF o.type = s_call
    THEN Bin("maximum", Bin("-", assets, L.strike), Sc(0))
    ELSE Bin("maximum", Bin("-", L.strike, assets), Sc(0))

\* lines 45-54: the option values at the expiration date
bopm_terminal(o, L) == bopm_payoff(o, L, bopm_assets(L, L.n))

\* a faulty variant of line 61: the weights of the two children exchanged
bopm_continuation_swapped(L, option_values) ==
  Bin("*",
      Map("exp", Bin("*", Map("neg", L.r), L.dt)),
      Bin("+",
          Bin("*", L.p, SliceTail(option_values)),
          Bin("*", Bin("-", Sc(One), L.p), SliceInit(option_values))))

\* line 61: the discounted expectation over the two children of every node
bopm_continuation(L, option_values) ==
  Bin("*",
      Map("exp", Bin("*", Map("neg", L.r), L.dt)),
      Bin("+",
          Bin("*", L.p, SliceInit(option_values)),
          Bin("*", Bin("-", Sc(One), L.p), SliceTail(option_values))))

\* lines 63-75: the early exercise of the region 'us' on the continuation
bopm_exercise(o, L, cont, i) ==
  IF EarlyExercise(o)
    THEN Bin("maximum", cont, bopm_payoff(o, L, bopm_assets(L, i)))
    ELSE cont

\* lines 61-75: one pass of the backward loop, at level i
bopm_backward(o, L, option_values, i) ==
  bopm_exercise(o, L, bopm_continuation(L, option_values), i)

\* lines 57-75: the backward loop from level i down to level 0
RECURSIVE bopm_loop(_, _, _, _)
bopm_loop(o, L, option_values, i) ==
  IF i < 0 \/ IsErr(option_values) THEN option_values
  ELSE bopm_loop(o, L, bopm_backward(o, L, option_values, i), i - 1)

\* lines 77-82: what is returned for the final option_values
bopm_return(option_values) ==
  IF option_values.nd > 1 THEN Flatten(option_values) ELSE Item(option_values)

\* what a call returns: the ValueError numpy raises for operands it cannot
\* broadcast, or the value
Outcome(v) ==
  IF IsErr(v) THEN [raised |-> "ValueError", value |-> BroadcastError]
  ELSE [raised |-> "", value |-> v]

\* whether lines 36-54 raise: some operands could not be broadcast
bopm_setup_raises(L, option_values) ==
  IsErr(L.dt) \/ IsErr(L.u) \/ IsErr(L.d) \/ IsErr(L.p) \/ IsErr(option_values)

\* lines 57-82, from the values at expiration
bopm_finish(o, L, start) ==
  IF bopm_setup_raises(L, start)
    \/ IsErr(bopm_loop(o, L, start, L.n - 1)) THEN Outcome(BroadcastError)
  ELSE Outcome(bopm_return(bopm_loop(o, L, start, L.n - 1)))

\* lines 45-82, from the parameters
bopm_run(o, L) == bopm_finish(o, L, bopm_terminal(o, L))

\* bopm.option_price as a whole
bopm_option_price(o, n) == bopm_run(o, bopm_params(o, n))

\* n over k
Choose[n \in Int, k \in Int] ==
  IF k = 0 THEN 1 ELSE (Choose[n, k - 1] * (n - k + 1)) \div k

\* scipy's binom.pmf(k, n, p): nan for a p outside [0, 1]
BinomPmfV[k \in Int, n \in Int, p \in Int] ==
  IF IsNaN(p) \/ p < 0 \/ p > One THEN NaN
  ELSE MulV[Choose[n, k] * Scale, MulV[PowV[p, k], PowV[AddV[One, NegV[p]], n - k]]]
binom_pmf(k, n, p) == BinomPmfV[k, n, p]

\* np.sum(probabilites[mask]) for the nodes 0 .. k of a mask
RECURSIVE MaskedSum(_, _, _)
MaskedSum(probabilites, mask, k) ==
  IF k < 0 THEN 0
  ELSE FAdd(MaskedSum(probabilites, mask, k - 1),
            IF mask[k] THEN probabilites[k] ELSE 0)

\* lines 187-188: the asset price at the terminal node j = 0 .. n
bopm_final_spot(o, n, u, d) ==
  [j \in 0..n |-> FMul(FMul(Val(o.spot), FPow(u, n - j)), FPow(d, j))]

\* lines 192 and 195: the nodes that end in the money
bopm_is_itm(o, n, final_spot) ==
  [j \in 0..n |->
     IF o.type = s_call THEN FGt(final_spot[j], Val(o.strike))
     ELSE FLt(final_spot[j], Val(o.strike))]

\* lines 193 and 196: the payoff at every terminal node
bopm_final_payoff(o, n, final_spot) ==
  [j \in 0..n |->
     IF o.type = s_call
       THEN np_maximum(FSub(final_spot[j], Val(o.strike)), 0)
       ELSE np_maximum(FSub(Val(o.strike), final_spot[j]), 0)]

\* line 197: the premium compounded to the expiration date
bopm_hurdle(o, price) == FMul(price, np_exp(FMul(Val(o.r), Val(o.tau))))

\* a faulty variant of line 197: the nodes that only break even are counted
bopm_is_profitable_or_even(n, payoff, hurdle) ==
  [j \in 0..n |-> FGe(payoff[j], hurdle)]

\* line 197: the nodes whose payoff exceeds the compounded premium
bopm_is_profitable(n, payoff, hurdle) ==
  [j \in 0..n |-> FGt(payoff[j], hurdle)]

\* lines 186-205 of prob_of_profit, for the price and the factors u, d and
\* the real-world probability p_real already computed: (POP, ITM)
bopm_tail_probabilities(o, n, price, u, d, p_real) ==
  LET final_spot  == bopm_final_spot(o, n, u, d)
      probabilites == [j \in 0..n |-> binom_pmf(j, n, p_real)]
  IN  <<MaskedSum(probabilites,
                  bopm_is_profitable(n, bopm_final_payoff(o, n, final_spot),
                                     bopm_hurdle(o, price)), n),
        MaskedSum(probabilites, bopm_is_itm(o, n, final_spot), n)>>

\* lines 183-184 and 199: the factors and the real-world probability
bopm_real_world(o, mu, n, price, dt, u, d) ==
  bopm_tail_probabilities(o, n, price, u, d,
                          FDiv(FSub(np_exp(FMul(mu, dt)), d), FSub(u, d)))

bopm_up_down(o, mu, n, price, dt, u) ==
  bopm_real_world(o, mu, n, price, dt, u, FDiv(One, u))

bopm_prob_given(o, mu, n, price, dt) ==
  bopm_up_down(o, mu, n, price, dt, np_exp(FMul(Val(o.sigma), np_sqrt(dt))))

\* line 180: what prob_of_profit does with the outcome of option_price
bopm_prob_priced(o, mu, n, priced) ==
  IF priced.raised # "" THEN priced
  ELSE [raised |-> "",
        value |-> bopm_prob_given(o, mu, n, Val(priced.value),
                                  FDiv(Val(o.tau), n * Scale))]

\* bopm.prob_of_profit on a scalar Option: the ValueError of option_price,
\* or (POP, ITM)
bopm_prob_of_profit(o, mu, n) ==
  bopm_prob_priced(o, mu, n, bopm_option_price(o, n))

\* ----------------------------------------------------------------------
\* Black-Scholes pricer (src/options/black_scholes.py), on scalar Options
\* ----------------------------------------------------------------------
Pi == Dec(31416, 10000)

\* dN: the standard normal density, 1 / sqrt(2 pi) * exp(-x**2 / 2)
dNV[x \in Int] ==
  FMul(FDiv(One, np_sqrt(FMul(2 * Scale, Pi))),
       np_exp(FDiv(FNeg(FMul(x, x)), 2 * Scale)))
dN(x) == dNV[x]

\* the polynomial b1 t + ... + b5 t^5 of the tail of the normal distribution
CdfPoly[t \in Int] ==
  FMul(t, FAdd(Dec(31938, 100000),
    FMul(t, FAdd(0 - Dec(35656, 100000),
      FMul(t, FAdd(Dec(178148, 100000),
        FMul(t, FAdd(0 - Dec(182126, 100000),
          FMul(t, Dec(133027, 100000))))))))))

\* the upper tail of the normal distribution at ax >= 0, by the formula of
\* Abramowitz and Stegun 26.2.17
NormTail[ax \in Int] ==
  FMul(dN(ax), CdfPoly[FDiv(One, FAdd(One, FMul(Dec(23164, 100000), ax)))])

Reflect[x \in Int, tail \in Int] == IF x >= 0 THEN FSub(One, tail) ELSE tail

\* N: scipy's norm.cdf
NV[x \in Int] ==
  IF IsNaN(x) THEN NaN
  ELSE IF x = PInf THEN One
  ELSE IF x = NInf THEN 0
  ELSE Reflect[x, NormTail[Abs(x)]]
N(x) == NV[x]

\* o.spot / o.strike divides two Python floats: ZeroDivisionError at zero
d_1_raises(o) == Val(o.strike) = 0

\* d_1, where it does not raise
d_1(o) ==
  LET num   == FAdd(np_log(FDiv(Val(o.spot), Val(o.strike))),
                    FMul(FAdd(Val(o.r),
                              FMul(Dec(5, 10), FMul(Val(o.sigma), Val(o.sigma)))),
                         Val(o.tau)))
      denom == FMul(Val(o.sigma), np_sqrt(Val(o.tau)))
  IN  FDiv(num, denom)

d_2(o) == FSub(d_1(o), FMul(Val(o.sigma), np_sqrt(Val(o.tau))))

\* exp(-r * tau)
Discount(o) == np_exp(FMul(FNeg(Val(o.r)), Val(o.tau)))

\* lines 50-55 of option_price, for d1 and d2
bs_price_from(o, d1, d2) ==
  IF o.type = s_call
    THEN FSub(FMul(N(d1), Val(o.spot)),
              FMul(FMul(N(d2), Val(o.strike)), Discount(o)))
    ELSE FSub(FMul(FMul(N(FNeg(d2)), Val(o.strike)), Discount(o)),
              FMul(N(FNeg(d1)), Val(o.spot)))

\* black_scholes.option_price, where d_1 does not raise
bs_option_price(o) == bs_price_from(o, d_1(o), d_2(o))

\* lines 64-80 of greeks, for d1 and d2 and the values they share
greeks_from(o, nd1, dnd1, nd2, nmd2, rt, disc) ==
  <<IF o.type = s_call THEN nd1 ELSE FSub(nd1, One),
    FDiv(dnd1, FMul(FMul(Val(o.spot), Val(o.sigma)), rt)),
    FMul(FMul(Val(o.spot), dnd1), rt),
    IF o.type = s_call
      THEN FSub(FNeg(FDiv(FMul(FMul(Val(o.spot), dnd1), Val(o.sigma)),
                          FMul(2 * Scale, rt))),
                FMul(FMul(FMul(Val(o.r), Val(o.strike)), disc), nd2))
      ELSE FAdd(FNeg(FDiv(FMul(FMul(Val(o.spot), dnd1), Val(o.sigma)),
                          FMul(2 * Scale, rt))),
                FMul(FMul(FMul(Val(o.r), Val(o.strike)), disc), nmd2)),
    IF o.type = s_call
      THEN FMul(FMul(FMul(Val(o.strike), Val(o.tau)), disc), nd2)
      ELSE FMul(FNeg(FMul(FMul(Val(o.strike), Val(o.tau)), disc)), nmd2)>>

\* greeks: (delta, gamma, vega, theta, rho)
greeks(o) ==
  greeks_from(o, N(d_1(o)), dN(d_1(o)), N(d_2(o)), N(FNeg(d_2(o))),
              np_sqrt(Val(o.tau)), Discount(o))

\* the tolerance 1e-5 of find_iv, rounded up to the grid
Tolerance == Max2(1, Dec(1, 100000))

\* the iteration cap of find_iv
MaxIter == 100

\* lines 96-98 of find_iv: the Newton-Raphson iterate sigma_new
find_iv_sigma_new(o, price) ==
  LET f  == FSub(bs_option_price(o), price)
      df == FMul(FMul(Val(o.spot), dN(d_1(o))), np_sqrt(Val(o.tau)))
  IN  FSub(Val(o.sigma), FDiv(f, df))

\* line 99 of find_iv: the convergence test
find_iv_converged(sigma_new, sigma) ==
  FLt(np_abs(FSub(sigma_new, sigma)), Tolerance)

\* lines 113-122 of prob_of_profit, for the break-even price and sigma sqrt(tau)
bs_prob_from(o, be, vol) ==
  IF o.type = s_call
    THEN <<N(FSub(FMul(FDiv(One, vol),
                       FAdd(np_log(FDiv(Val(o.spot), be)),
                            FMul(FAdd(Val(o.r),
                                      FDiv(FMul(Val(o.sigma), Val(o.sigma)), 2 * Scale)),
                                 Val(o.tau)))), vol)),
           N(d_2(o))>>
    ELSE <<FSub(One, N(FSub(FMul(FDiv(One, vol),
                       FAdd(np_log(FDiv(Val(o.spot), be)),
                            FMul(FAdd(Val(o.r),
                                      FDiv(FMul(Val(o.sigma), Val(o.sigma)), 2 * Scale)),
                                 Val(o.tau)))), vol))),
           FSub(One, N(d_2(o)))>>

\* lines 108-111: the break-even price of the contract
bs_break_even(o, price) ==
  IF o.type = s_call THEN FAdd(Val(o.strike), price) ELSE FSub(Val(o.strike), price)

\* black_scholes.prob_of_profit: (POP, ITM)
bs_prob_of_profit(o) ==
  bs_prob_from(o, bs_break_even(o, bs_option_price(o)),
               FMul(Val(o.sigma), np_sqrt(Val(o.tau))))

\* black_scholes.expected_return
expected_return(o, mu) ==
  FAdd(Val(o.r),
       FMul(FDiv(FMul(greeks(o)[1], Val(o.spot)), bs_option_price(o)),
            FSub(mu, Val(o.r))))

\* ----------------------------------------------------------------------
\* The state: one Option object and the call in progress on it
\* ----------------------------------------------------------------------
VARIABLES
  o,      \* the Option object, NoOption before it is constructed
  pc,     \* "idle", or the function whose loop is running
  call,   \* the public operation called last: its name and arguments
  ret,    \* what that call returned or raised
  loc     \* the local variables of the running loop

vars == <<o, pc, call, ret, loc>>

None == <<>>
Returned(v) == [raised |-> "", value |-> v]
Raised(e) == [raised |-> e, value |-> None]

\* ---- the inputs --------------------------------------------------------
Spot0 == 100 * Scale
Rate0 == Dec(2, 100)
Sigma0 == Dec(2, 10)

BaseArgs ==
  [tau |-> Sc(One), spot |-> Sc(Spot0), strike |-> Sc(90 * Scale),
   sigma |-> Sc(Sigma0), r |-> Sc(Rate0), div |-> Sc(0),
   type |-> s_call, region |-> s_eu]

\* scalar contracts <<strike, sigma, type>>: at the money, a put deep in the
\* money, a call out of and one in the money, one without volatility and one
\* without strike
Contracts ==
  { <<100 * Scale, Sigma0, s_call>>, <<150 * Scale, Sigma0, s_put>>,
    <<150 * Scale, Sigma0, s_call>>, <<90 * Scale, Sigma0, s_call>>,
    <<100 * Scale, 0, s_call>>, <<0, Sigma0, s_put>> }

\* the regions __init__ takes
Regions == {s_eu, s_na}

ScalarArgs ==
  { [BaseArgs EXCEPT !.strike = Sc(c[1]), !.sigma = Sc(c[2]), !.type = c[3],
                     !.region = g] : c \in Contracts, g \in Regions }

\* the numeric attributes, and the ones __init__ tests for negative values
Numeric == {"tau", "spot", "strike", "sigma", "r", "div"}
NonNegative == {"tau", "spot", "strike", "sigma", "div"}

\* the k-th contract of a batch of MaxM contracts, attribute by attribute
BatchValue(f, k) ==
  CASE f = "tau"    -> One + (k - 1) * One
    [] f = "spot"   -> Spot0 + (k - 1) * 10 * Scale
    [] f = "strike" -> 90 * Scale + (k - 1) * 60 * Scale
    [] f = "sigma"  -> Sigma0 + (k - 1) * Dec(1, 10)
    [] f = "r"      -> Rate0 + (k - 1) * Dec(3, 100)
    [] f = "div"    -> (k - 1) * Dec(1, 100)

Batch(f) == Vec([k \in 1..MaxM |-> BatchValue(f, k)])

\* batched contracts: any subset of the numeric attributes is a sequence
VecArgs ==
  { [tau    |-> IF "tau" \in V THEN Batch("tau") ELSE Sc(BatchValue("tau", 1)),
     spot   |-> IF "spot" \in V THEN Batch("spot") ELSE Sc(BatchValue("spot", 1)),
     strike |-> IF "strike" \in V THEN Batch("strike") ELSE Sc(BatchValue("strike", 1)),
     sigma  |-> IF "sigma" \in V THEN Batch("sigma") ELSE Sc(BatchValue("sigma", 1)),
     r      |-> IF "r" \in V THEN Batch("r") ELSE Sc(BatchValue("r", 1)),
     div    |-> IF "div" \in V THEN Batch("div") ELSE Sc(BatchValue("div", 1)),
     type   |-> t, region |-> g] :
      V \in SUBSET Numeric, t \in {s_call, s_put}, g \in Regions }

\* a negative scalar, and a sequence with one negative element
Negatives == {Sc(0 - Dec(5, 10)), Vec([k \in 1..MaxM |-> IF k = 1 THEN One ELSE 0 - One])}

\* contracts with one negative attribute
NegArgs ==
  { [[BaseArgs EXCEPT ![f] = v] EXCEPT !.type = t, !.strike = k] :
      f \in NonNegative, v \in Negatives, t \in {s_call, s_put},
      k \in {BaseArgs.strike, Batch("strike")} }

\* spellings of the type and of the region
TypeNames ==
  { s_call, <<"C", "A", "L", "L">>, <<"C", "a", "l", "l">>, s_put,
    <<"P", "u", "t">>, <<"c", "a", "p">>, <<>> }
RegionNames ==
  { s_eu, <<"E", "U">>, <<"E", "u">>, s_us, <<"U", "S">>, s_na, <<"N", "A">>,
    <<"a", "s">> }

NameArgs ==
  { [BaseArgs EXCEPT !.type = t, !.region = g] : t \in TypeNames, g \in RegionNames }

BatchArgs == VecArgs \cup NegArgs \cup NameArgs

Init ==
  /\ o = NoOption
  /\ pc = "idle"
  /\ call = [op |-> "", args |-> None]
  /\ ret = Returned(None)
  /\ loc = None

\* ---- Option(...) -------------------------------------------------------
New(Args) ==
  /\ pc = "idle"
  /\ o = NoOption
  /\ \E a \in Args :
       LET made == Option__init__(a)
       IN  /\ o' = made.self
           /\ call' = [op |-> "Option", args |-> a]
           /\ ret' = IF made.raised # "" THEN Raised(made.raised)
                     ELSE Returned(None)
  /\ UNCHANGED <<pc, loc>>

Ready == pc = "idle" /\ o # NoOption

\* ---- black_scholes -----------------------------------------------------
\* a call of a function that only reads the Option
Pure(op, args, value) ==
  /\ Ready
  /\ call' = [op |-> op, args |-> args]
  /\ ret' = IF d_1_raises(o) THEN Raised("ZeroDivisionError") ELSE Returned(value)
  /\ UNCHANGED <<o, pc, loc>>

BsOptionPrice == Pure("bs.option_price", None, bs_option_price(o))

Greeks == Pure("bs.greeks", None, greeks(o))

BsProbOfProfit == Pure("bs.prob_of_profit", None, bs_prob_of_profit(o))

Mus == {Dec(8, 100), Dec(5, 10)}

ExpectedReturn == \E mu \in Mus : Pure("bs.expected_return", <<mu>>, expected_return(o, mu))

\* find_iv, line 94: the initial guess is written to the Option
\* <<sigma_init, price>>: the price of the contract at the money, from its own
\* volatility and from afar, and a price below it
IvInputs ==
  { <<Sigma0, Dec(89302, 10000)>>, <<Dec(5, 10), Dec(89302, 10000)>>,
    <<Sigma0, 5 * Scale>> }

FindIvCall ==
  /\ Ready
  /\ \E in \in IvInputs :
       LET sigma_init == in[1]
           price      == in[2]
       IN  /\ o' = [o EXCEPT !.sigma = Sc(sigma_init)]
           /\ call' = [op |-> "bs.find_iv", args |-> <<sigma_init, price>>]
           /\ loc' = [i |-> 0, price |-> price]
  /\ pc' = "find_iv"
  /\ ret' = Returned(None)

\* find_iv, lines 95-101: one pass of the loop
FindIvStep ==
  /\ pc = "find_iv"
  /\ loc.i < MaxIter
  /\ IF d_1_raises(o)
       THEN /\ ret' = Raised("ZeroDivisionError")
            /\ pc' = "idle"
            /\ loc' = None
            /\ o' = o
       ELSE \E sigma_new \in {find_iv_sigma_new(o, loc.price)} :
              IF find_iv_converged(sigma_new, Val(o.sigma))
                THEN /\ ret' = Returned(sigma_new)
                     /\ pc' = "idle"
                     /\ loc' = None
                     /\ o' = o
                ELSE /\ o' = [o EXCEPT !.sigma = Sc(sigma_new)]
                     /\ loc' = [loc EXCEPT !.i = loc.i + 1]
                     /\ UNCHANGED <<pc, ret>>
  /\ UNCHANGED call

\* find_iv, line 102: the loop ran out
FindIvExhausted ==
  /\ pc = "find_iv"
  /\ loc.i >= MaxIter
  /\ ret' = Returned(NaN)
  /\ pc' = "idle"
  /\ loc' = None
  /\ UNCHANGED <<o, call>>

\* ---- bopm --------------------------------------------------------------
Levels == 1..MaxN

\* a faulty variant of lines 28-54: the time step dt written back to o.tau
BopmCallInPlace ==
  /\ Ready
  /\ \E n \in Levels :
       \E L \in {bopm_params(o, n)} :
         \E start \in {bopm_terminal(o, L)} :
           /\ call' = [op |-> "bopm.option_price", args |-> <<n>>]
           /\ o' = [o EXCEPT !.tau = L.dt]
           /\ IF bopm_setup_raises(L, start)
                THEN /\ ret' = Raised("ValueError")
                     /\ UNCHANGED <<pc, loc>>
                ELSE /\ pc' = "option_price"
                     /\ loc' = [L |-> L, option_values |-> start, i |-> n - 1]
                     /\ ret' = Returned(None)

\* option_price, lines 28-54: the parameters and the values at expiration
BopmCall ==
  /\ Ready
  /\ \E n \in Levels :
       \E L \in {bopm_params(o, n)} :
         \E start \in {bopm_terminal(o, L)} :
           /\ call' = [op |-> "bopm.option_price", args |-> <<n>>]
           /\ IF bopm_setup_raises(L, start)
                THEN /\ ret' = Raised("ValueError")
                     /\ UNCHANGED <<pc, loc>>
                ELSE /\ pc' = "option_price"
                     /\ loc' = [L |-> L, option_values |-> start, i |-> n - 1]
                     /\ ret' = Returned(None)
  /\ UNCHANGED o

\* option_price, lines 57-75: one pass of the backward loop
BopmStep ==
  /\ pc = "option_price"
  /\ loc.i >= 0
  /\ \E next \in {bopm_backward(o, loc.L, loc.option_values, loc.i)} :
       IF IsErr(next)
         THEN /\ ret' = Raised("ValueError")
              /\ pc' = "idle"
              /\ loc' = None
         ELSE /\ loc' = [loc EXCEPT !.option_values = next, !.i = loc.i - 1]
              /\ UNCHANGED <<pc, ret>>
  /\ UNCHANGED <<o, call>>

\* option_price, lines 77-82: the return
BopmReturn ==
  /\ pc = "option_price"
  /\ loc.i < 0
  /\ ret' = Returned(bopm_return(loc.option_values))
  /\ pc' = "idle"
  /\ loc' = None
  /\ UNCHANGED <<o, call>>

\* prob_of_profit of the lattice
BopmProbOfProfit ==
  /\ Ready
  /\ \E mu \in Mus, n \in Levels :
       \E result \in {bopm_prob_of_profit(o, mu, n)} :
         /\ call' = [op |-> "bopm.prob_of_profit", args |-> <<mu, n>>]
         /\ ret' = IF result.raised # "" THEN Raised("ValueError")
                   ELSE Returned(result.value)
  /\ UNCHANGED <<o, pc, loc>>

\* ---- the engine on scalar contracts ------------------------------------
Next ==
  \/ New(ScalarArgs)
  \/ BsOptionPrice
  \/ Greeks
  \/ BsProbOfProfit
  \/ ExpectedReturn
  \/ FindIvCall
  \/ FindIvStep
  \/ FindIvExhausted
  \/ BopmCall
  \/ BopmStep
  \/ BopmReturn
  \/ BopmProbOfProfit

Spec == Init /\ [][Next]_vars

\* ---- the constructor and the lattice pricer on batched contracts -------
NextBatch ==
  \/ New(BatchArgs)
  \/ BopmCall
  \/ BopmStep
  \/ BopmReturn

SpecBatch == Init /\ [][NextBatch]_vars

\* ----------------------------------------------------------------------
\* The properties
\* ----------------------------------------------------------------------
\* whether some attribute that must not be negative holds a negative entry
HasNegative(a) ==
  \E f \in NonNegative : \E j \in 1..a[f].C : a[f].d[1][j] < 0

\* whether some numeric attribute of the Option is a sequence
IsBatch(op) == \E f \in Numeric : op[f].nd > 0

\* the scalar Option built from the k-th element of each sequence
KthOption(op, k) ==
  [tau |-> Sc(At(op.tau, 1, k)), spot |-> Sc(At(op.spot, 1, k)),
   strike |-> Sc(At(op.strike, 1, k)), sigma |-> Sc(At(op.sigma, 1, k)),
   r |-> Sc(At(op.r, 1, k)), div |-> Sc(At(op.div, 1, k)),
   type |-> op.type, region |-> op.region]

\* a call of the lattice option_price on an Option without negative
\* attributes has come back
LatticePriced ==
  pc = "idle" /\ call.op = "bopm.option_price" /\ ~HasNegative(o)

\* C1: constructing an Option with a negative value in tau, spot, strike,
\* sigma or div (a negative scalar, or a sequence with a negative element)
\* raises a ValueError and yields no Option object.
C1_NegativeRejected ==
  (call.op = "Option" /\ HasNegative(call.args)) =>
    (ret.raised = "ValueError" /\ o = NoOption)

\* C2: the lattice option_price returns a scalar number (not a length-1
\* array) when every field of the Option is a scalar, and a one-dimensional
\* vector of exactly M entries when the Option carries length-M sequences.
C2_ReturnShape ==
  (LatticePriced /\ ret.raised = "") =>
    /\ IF IsBatch(o) THEN ret.value.nd = 1 /\ ret.value.C = MaxM
       ELSE ret.value.nd = 0

\* C3: for a batched Option the lattice option_price returns, for every
\* index k, the value of option_price on the scalar Option built from the
\* k-th element of each sequence, in the order of the inputs.
C3_BatchEqualsScalar ==
  (LatticePriced /\ IsBatch(o)) =>
    /\ ret.raised = ""
    /\ ret.value.nd = 1
    /\ ret.value.C = MaxM
    /\ \A k \in 1..MaxM :
         ret.value.d[1][k] = Val(bopm_option_price(KthOption(o, k), call.args[1]).value)

\* C4: the constructor accepts, in any case, exactly the types 'call' and
\* 'put' and exactly the regions 'eu' and 'us', stores the lower-cased
\* values, and raises a ValueError for every other type or region.
C4_NamesAccepted ==
  (call.op = "Option" /\ ~HasNegative(call.args)) =>
    IF lower(call.args.type) \in {s_call, s_put}
       /\ lower(call.args.region) \in {s_eu, s_us}
      THEN /\ ret.raised = ""
           /\ o # NoOption
           /\ o.type = lower(call.args.type)
           /\ o.region = lower(call.args.region)
      ELSE ret.raised = "ValueError" /\ o = NoOption

\* C5: find_iv ends after at most 100 passes of its loop without raising: a
\* pass returns sigma_new when |sigma_new - sigma| < 1e-5 and goes on
\* otherwise, and after the 100th pass the NaN sentinel is returned.
C5_FindIvNeverRaises ==
  [][pc = "find_iv" =>
       /\ ret'.raised = ""
       /\ loc.i <= MaxIter
       /\ IF pc' = "find_iv"
            THEN /\ loc.i < MaxIter
                 /\ loc'.i = loc.i + 1
                 /\ o'.sigma = Sc(find_iv_sigma_new(o, loc.price))
                 /\ ~FLt(np_abs(FSub(Val(o'.sigma), Val(o.sigma))), Tolerance)
            ELSE IF loc.i < MaxIter
              THEN /\ ret'.value = find_iv_sigma_new(o, loc.price)
                   /\ FLt(np_abs(FSub(ret'.value, Val(o.sigma))), Tolerance)
              ELSE ret'.value = NaN]_vars

\* C6: across the calls of the public operations the only Option field
\* written is sigma and only find_iv writes it: tau, spot, strike, r, div,
\* type and region are left as they are by every operation.
C6_OnlyFindIvWritesSigma ==
  [][o # NoOption =>
       /\ o' # NoOption
       /\ \A f \in {"tau", "spot", "strike", "r", "div", "type", "region"} :
            o'[f] = o[f]
       /\ (o'.sigma # o.sigma => call'.op = "bs.find_iv")]_vars

\* find_iv has returned a volatility and has left another one than its
\* initial guess in the Option
C6_SigmaRewritten ==
  /\ pc = "idle"
  /\ call.op = "bs.find_iv"
  /\ ret.raised = ""
  /\ ret.value # NaN
  /\ Val(o.sigma) # call.args[1]

\* the lattice price of the Option of the other exercise style
PartnerPrice ==
  Val(bopm_option_price([o EXCEPT !.region = IF o.region = s_eu THEN s_na ELSE s_eu],
                        call.args[1]).value)

C8_EarlyExerciseAtEveryLevel ==
  [][(pc = "option_price" /\ pc' = "option_price" /\ loc'.i # loc.i
        /\ o.region # s_eu) =>
       \A j \in 1..loc'.option_values.C :
         loc'.option_values.d[1][j] =
           np_maximum(
             FMul(np_exp(FMul(FNeg(Val(o.r)), Val(loc.L.dt))),
                  FAdd(FMul(Val(loc.L.p), loc.option_values.d[1][j]),
                       FMul(FSub(One, Val(loc.L.p)), loc.option_values.d[1][j + 1]))),
             IF o.type = s_call
               THEN np_maximum(FSub(FMul(FMul(Val(o.spot),
                                              FPow(Val(loc.L.u), loc.i - (j - 1))),
                                         FPow(Val(loc.L.d), j - 1)),
                                    Val(o.strike)), 0)
               ELSE np_maximum(FSub(Val(o.strike),
                                    FMul(FMul(Val(o.spot),
                                              FPow(Val(loc.L.u), loc.i - (j - 1))),
                                         FPow(Val(loc.L.d), j - 1))), 0))]_vars

\* the payoff of exercising node j of level i
NodePayoff(L, i, j) ==
  IF o.type = s_call
    THEN np_maximum(FSub(FMul(FMul(Val(o.spot), FPow(Val(L.u), i - j)),
                              FPow(Val(L.d), j)), Val(o.strike)), 0)
    ELSE np_maximum(FSub(Val(o.strike),
                         FMul(FMul(Val(o.spot), FPow(Val(L.u), i - j)),
                              FPow(Val(L.d), j))), 0)

\* C9: the row of node values starts with the n + 1 terminal payoffs (node
\* j at S * u^(n-j) * d^j); each of the n backward steps yields a row one
\* entry shorter whose entry j is e^(-r dt) (p V_j + (1 - p) V_(j+1)) of
\* the row before; after the n-th step one root value remains and is the
\* returned price.
C9_LatticeRows ==
  [][/\ (pc = "idle" /\ pc' = "option_price") =>
          /\ loc'.i = call'.args[1] - 1
          /\ loc'.option_values.R = 1
          /\ loc'.option_values.C = call'.args[1] + 1
          /\ \A j \in 0..call'.args[1] :
               loc'.option_values.d[1][j + 1] = NodePayoff(loc'.L, call'.args[1], j)
     /\ (pc = "option_price" /\ pc' = "option_price" /\ loc'.i # loc.i) =>
          /\ loc'.i = loc.i - 1
          /\ loc.i >= 0
          /\ loc'.option_values.R = 1
          /\ loc'.option_values.C = loc.option_values.C - 1
          /\ loc'.option_values.C = loc'.i + 2
          /\ \A j \in 1..loc'.option_values.C :
               loc'.option_values.d[1][j] =
                 FMul(np_exp(FMul(FNeg(Val(o.r)), Val(loc.L.dt))),
                      FAdd(FMul(Val(loc.L.p), loc.option_values.d[1][j]),
                           FMul(FSub(One, Val(loc.L.p)),
                                loc.option_values.d[1][j + 1])))
     /\ (pc = "option_price" /\ pc' = "idle") =>
          /\ loc.i = 0 - 1
          /\ loc.option_values.C = 1
          /\ ret'.raised = ""
          /\ ret'.value.C = 1
          /\ Val(ret'.value) = loc.option_values.d[1][1]]_vars

\* a lattice of MaxN levels has been walked back to a positive root value
C9_DeepLatticePriced ==
  /\ LatticePriced
  /\ call.args[1] = MaxN
  /\ ret.raised = ""
  /\ ~IsNaN(Val(ret.value))
  /\ Val(ret.value) > 0

\* C10: the volatility of a constructed Option is a non-negative number in
\* every reachable state, during and after every find_iv call as well.
C10_SigmaNonNegative ==
  o # NoOption => FGe(Val(o.sigma), 0)

\* the last call was a lattice prob_of_profit that returned (POP, ITM)
ProbOfProfitReturned ==
  /\ pc = "idle"
  /\ o # NoOption
  /\ call.op = "bopm.prob_of_profit"
  /\ ret.raised = ""

\* the quantities prob_of_profit computed on the way, from the state
ProbPrice == Val(bopm_option_price(o, call.args[2]).value)
ProbDt == FDiv(Val(o.tau), call.args[2] * Scale)
ProbU == np_exp(FMul(Val(o.sigma), np_sqrt(ProbDt)))
ProbD == FDiv(One, ProbU)
ProbPReal == FDiv(FSub(np_exp(FMul(call.args[1], ProbDt)), ProbD),
                  FSub(ProbU, ProbD))

\* the premise of C11: a price >= 0 and 0 <= p_real <= 1
ProbPremise ==
  /\ FGe(ProbPrice, 0)
  /\ FGe(ProbPReal, 0)
  /\ FGe(One, ProbPReal)

\* every node of the profitable mask is a node of the in-the-money mask
MaskNested(n, is_profitable, is_itm) ==
  \A j \in 0..n : is_profitable[j] => is_itm[j]

\* the masks of the state's call, for the terminal prices final_spot
ProbMasksNested(n, final_spot) ==
  MaskNested(n,
             bopm_is_profitable(n, bopm_final_payoff(o, n, final_spot),
                                bopm_hurdle(o, ProbPrice)),
             bopm_is_itm(o, n, final_spot))

\* C11: after a lattice prob_of_profit whose lattice price is non-negative
\* and whose real-world probability p_real lies in [0, 1], every terminal
\* node counted as profitable is also counted as in the money, the returned
\* probability of profit is at most the returned probability of finishing in
\* the money, and both lie in [0, 1].
C11_ProfitWithinItm ==
  (ProbOfProfitReturned /\ ProbPremise) =>
    /\ ProbMasksNested(call.args[2],
                       bopm_final_spot(o, call.args[2], ProbU, ProbD))
    /\ FGe(ret.value[2], ret.value[1])
    /\ FGe(ret.value[1], 0)
    /\ FGe(One, ret.value[2])

\* a put whose terminal nodes are in the money more often than profitable:
\* 0 < POP < ITM
C11_ProfitBelowItm ==
  /\ ProbOfProfitReturned
  /\ ProbPremise
  /\ FGt(ret.value[1], 0)
  /\ FGt(ret.value[2], ret.value[1])

=============================================================================
